---- MODULE Spec2Model ----
(***************************************************************************)
(* Model of numpy/polynomial/polynomial.py: the power-series functions     *)
(* polyfromroots, polyadd, polysub, polymulx, polymul, polydiv, polypow,    *)
(* polyder, polyint, polyval, polyvander, polyvander3d, polyfit and        *)
(* polyroots, over exact rational coefficients.                            *)
(*                                                                         *)
(* A number is a normalised fraction <<n, d>> (d > 0, gcd(n, d) = 1), so   *)
(* that equality of numbers is equality of tuples.  A 1-D array is a       *)
(* sequence of numbers, lowest degree first; Python index t is TLA+ index  *)
(* t + 1.  A call returns [exc, val]: exc is "None" or the name of the     *)
(* exception raised, val the returned value.                               *)
(*                                                                         *)
(* fn, args, ret: the last call, its arguments and its outcome.            *)
(* mem: the arrays the caller passed, as they are after the call.          *)
(* ext: what the call sent out of the module besides its result: the       *)
(*      matrices handed to numpy.linalg and the warnings emitted.          *)
(* steps: the number of calls made so far.                                 *)
(***************************************************************************)
EXTENDS Integers, Sequences, FiniteSets, TLC

VARIABLES fn, args, ret, mem, ext, steps

vars == <<fn, args, ret, mem, ext, steps>>

(***************************************************************************)
(* Bounds of the explored inputs.                                          *)
(***************************************************************************)
MaxLen == 3
MaxCoef == 2
MaxPow == 3
MaxDeg == 3
MaxOrd == 2
MaxPts == 2
MaxRoots == 3
\* the number of calls in a sequence of calls
MaxSteps == 3

(***************************************************************************)
(* Exact arithmetic.                                                       *)
(***************************************************************************)
Abs(n) == IF n < 0 THEN -n ELSE n

RECURSIVE GCD(_, _)
GCD(a, b) == IF b = 0 THEN a ELSE GCD(b, a % b)

Rat(n, d) ==
    LET g == GCD(Abs(n), Abs(d))
        s == IF d < 0 THEN -1 ELSE 1
    IN  <<(s * n) \div g, (s * d) \div g>>

IntR(n) == <<n, 1>>
Zero == <<0, 1>>
One == <<1, 1>>

RAdd(a, b) == Rat(a[1] * b[2] + b[1] * a[2], a[2] * b[2])
RNeg(a) == <<-a[1], a[2]>>
RSub(a, b) == RAdd(a, RNeg(b))
RMul(a, b) == Rat(a[1] * b[1], a[2] * b[2])
RDiv(a, b) == Rat(a[1] * b[2], a[2] * b[1])
RLess(a, b) == a[1] * b[2] < b[1] * a[2]

\* int(t): truncation towards zero
Trunc(a) == IF a[1] >= 0 THEN IntR(a[1] \div a[2]) ELSE IntR(-((-a[1]) \div a[2]))

Ok(v) == [exc |-> "None", val |-> v]
Raise(e) == [exc |-> e, val |-> <<>>]
\* an exception told from others of its type by its message
RaiseMsg(e, m) == [exc |-> e, val |-> <<>>, msg |-> m]

(***************************************************************************)
(* Series utilities (polyutils).                                           *)
(***************************************************************************)
RECURSIVE TrimLen(_, _)
TrimLen(seq, i) ==
    IF i <= 1 THEN 1
    ELSE IF seq[i] # Zero THEN i
    ELSE TrimLen(seq, i - 1)

trimseq(seq) == IF Len(seq) = 0 THEN seq ELSE SubSeq(seq, 1, TrimLen(seq, Len(seq)))

\* The 2-D array [[1]].  A 2-D array is the sequence of its rows; the rows of
\* the model have one element, which tells them from the numbers <<n, d>>.
TwoD == << <<One>> >>
ndim(a) == IF Len(a) > 0 /\ Len(a[1]) = 1 THEN 2 ELSE 1

as_series(alist, trim) ==
    IF \E i \in 1..Len(alist) : Len(alist[i]) = 0
    THEN RaiseMsg("ValueError", "Coefficient array is empty")
    ELSE IF \E i \in 1..Len(alist) : ndim(alist[i]) # 1
    THEN RaiseMsg("ValueError", "Coefficient array is not 1-d")
    ELSE Ok([i \in 1..Len(alist) |-> IF trim THEN trimseq(alist[i]) ELSE alist[i]])

\* The buffer a working array lives in: 0 is a buffer of the call's own, i > 0
\* the buffer of the caller's i-th array argument.
\* as_series returns trimmed copies
SeriesOwner(i) == 0

\* an in-place write of v at the front of the buffer o
Store(m, o, v) ==
    IF o = 0 THEN m
    ELSE [m EXCEPT ![o] = [t \in 1..Len(m[o]) |-> IF t <= Len(v) THEN v[t] ELSE m[o][t]]]

\* a[:1]
First(a) == IF Len(a) = 0 THEN a ELSE SubSeq(a, 1, 1)

\* a * s, a / s, -a for an array a and a scalar s
Scale(a, s) == [t \in 1..Len(a) |-> RMul(a[t], s)]
DivBy(a, s) == [t \in 1..Len(a) |-> RDiv(a[t], s)]
\* a slip: c2 = c2 in place of c2 = -c2
Negate_noop(a) == a
Negate(a) == [t \in 1..Len(a) |-> RNeg(a[t])]

\* a[:b.size] += b, for len(b) <= len(a)
AddPrefix(a, b) == [t \in 1..Len(a) |-> IF t <= Len(b) THEN RAdd(a[t], b[t]) ELSE a[t]]
\* a[:b.size] -= b, for len(b) <= len(a)
SubPrefix(a, b) == [t \in 1..Len(a) |-> IF t <= Len(b) THEN RSub(a[t], b[t]) ELSE a[t]]

\* np.convolve(a, v), mode 'full': the products a[i]*v[j] accumulated at i+j
RECURSIVE ConvAcc(_, _, _, _)
ConvAcc(a, v, k, i) ==
    IF i > Len(a) THEN Zero
    ELSE LET j == k - i + 1
             rest == ConvAcc(a, v, k, i + 1)
         IN  IF j >= 1 /\ j <= Len(v) THEN RAdd(RMul(a[i], v[j]), rest) ELSE rest

convolve(a, v) == [k \in 1..(Len(a) + Len(v) - 1) |-> ConvAcc(a, v, k, 1)]

(***************************************************************************)
(* Arithmetic.                                                             *)
(***************************************************************************)
\* a slip in the branch choice: always accumulates into c1
polyadd_into_c1(c1, c2) ==
    LET s == as_series(<<c1, c2>>, TRUE)
    IN  IF s.exc # "None" THEN s
        ELSE Ok(trimseq(AddPrefix(s.val[1], s.val[2])))

polyadd(c1, c2) ==
    LET s == as_series(<<c1, c2>>, TRUE)
    IN  IF s.exc # "None" THEN s
        ELSE LET a == s.val[1]
                 b == s.val[2]
                 r == IF Len(a) > Len(b) THEN AddPrefix(a, b) ELSE AddPrefix(b, a)
             IN  Ok(trimseq(r))

\* the caller's c1, c2 after polyadd: the += goes to the longer working array
polyadd_mem(c1, c2) ==
    LET s == as_series(<<c1, c2>>, TRUE)
    IN  IF s.exc # "None" THEN <<c1, c2>>
        ELSE LET a == s.val[1]
                 b == s.val[2]
             IN  IF Len(a) > Len(b)
                 THEN Store(<<c1, c2>>, SeriesOwner(1), AddPrefix(a, b))
                 ELSE Store(<<c1, c2>>, SeriesOwner(2), AddPrefix(b, a))

polysub(c1, c2) ==
    LET s == as_series(<<c1, c2>>, TRUE)
    IN  IF s.exc # "None" THEN s
        ELSE LET a == s.val[1]
                 b == s.val[2]
                 r == IF Len(a) > Len(b) THEN SubPrefix(a, b) ELSE AddPrefix(Negate(b), a)
             IN  Ok(trimseq(r))

\* the caller's c1, c2 after polysub: -= on c1, or += on the new array -c2
polysub_mem(c1, c2) ==
    LET s == as_series(<<c1, c2>>, TRUE)
    IN  IF s.exc # "None" THEN <<c1, c2>>
        ELSE LET a == s.val[1]
                 b == s.val[2]
             IN  IF Len(a) > Len(b)
                 THEN Store(<<c1, c2>>, SeriesOwner(1), SubPrefix(a, b))
                 ELSE <<c1, c2>>

\* a slip: no special treatment of the zero series
polymulx_no_zero_case(a) ==
    LET s == as_series(<<a>>, TRUE)
    IN  IF s.exc # "None" THEN s
        ELSE LET cs == s.val[1]
             IN  Ok(<<RMul(cs[1], Zero)>> \o cs)

polymulx(a) ==
    LET s == as_series(<<a>>, TRUE)
    IN  IF s.exc # "None" THEN s
        ELSE LET cs == s.val[1]
             IN  IF Len(cs) = 1 /\ cs[1] = Zero THEN Ok(cs)
                 ELSE Ok(<<RMul(cs[1], Zero)>> \o cs)

\* a slip: prd = polyadd(polymulx(prd), r*prd)
FromRootsStep_add(prd, r) == polyadd(polymulx(prd).val, Scale(prd, r)).val

\* prd = polysub(polymulx(prd), r*prd)
FromRootsStep(prd, r) == polysub(polymulx(prd).val, Scale(prd, r)).val

\* for r in roots: ...     (roots[i..] are still to do)
RECURSIVE FromRootsLoop(_, _, _)
FromRootsLoop(prd, roots, i) ==
    IF i > Len(roots) THEN prd
    ELSE FromRootsLoop(FromRootsStep(prd, roots[i]), roots, i + 1)

polyfromroots(roots) ==
    IF Len(roots) = 0 THEN Ok(<<One>>)
    ELSE LET s == as_series(<<roots>>, FALSE)
         IN  IF s.exc # "None" THEN s
             ELSE Ok(FromRootsLoop(<<One>>, s.val[1], 1))

\* a slip: the product returned without the final trim
polymul_untrimmed(c1, c2) ==
    LET s == as_series(<<c1, c2>>, TRUE)
    IN  IF s.exc # "None" THEN s
        ELSE Ok(convolve(s.val[1], s.val[2]))

polymul(c1, c2) ==
    LET s == as_series(<<c1, c2>>, TRUE)
    IN  IF s.exc # "None" THEN s
        ELSE Ok(trimseq(convolve(s.val[1], s.val[2])))

\* a slip: the divisor tested at c2[0] instead of c2[-1]
ZeroDivisor_first(c2) == c2[1] = Zero

\* if c2[-1] == 0
ZeroDivisor(c2) == c2[Len(c2)] = Zero

\* a slip: c1[i:j] -= c2*c1[j-1]
DivStep_wrong_pivot(c1, c2, i, j) ==
    [t \in 1..Len(c1) |->
        IF t >= i + 1 /\ t <= j THEN RSub(c1[t], RMul(c2[t - i], c1[j])) ELSE c1[t]]

\* one pass of the division loop: c1[i:j] -= c2*c1[j]  (Python indices i, j)
DivStep(c1, c2, i, j) ==
    [t \in 1..Len(c1) |->
        IF t >= i + 1 /\ t <= j THEN RSub(c1[t], RMul(c2[t - i], c1[j + 1])) ELSE c1[t]]

\* while i >= 0: c1[i:j] -= c2*c1[j]; i -= 1; j -= 1     returns <<c1, j>>
RECURSIVE DivLoop(_, _, _, _)
DivLoop(c1, c2, i, j) ==
    IF i >= 0 THEN DivLoop(DivStep(c1, c2, i, j), c2, i - 1, j - 1) ELSE <<c1, j>>

polydiv(a1, a2) ==
    LET s == as_series(<<a1, a2>>, TRUE)
    IN  IF s.exc # "None" THEN s
        ELSE LET c1 == s.val[1]
                 c2 == s.val[2]
                 len1 == Len(c1)
                 len2 == Len(c2)
             IN  IF ZeroDivisor(c2) THEN Raise("ZeroDivisionError")
                 ELSE IF len2 = 1 THEN Ok(<<DivBy(c1, c2[len2]), Scale(First(c1), Zero)>>)
                 ELSE IF len1 < len2 THEN Ok(<<Scale(First(c1), Zero), c1>>)
                 ELSE LET dlen == len1 - len2
                          scl == c2[len2]
                          c2n == DivBy(SubSeq(c2, 1, len2 - 1), scl)
                          fin == DivLoop(c1, c2n, dlen, len1 - 1)
                          d1 == fin[1]
                          j == fin[2]
                      IN  Ok(<<DivBy(SubSeq(d1, j + 2, len1), scl),
                               trimseq(SubSeq(d1, 1, j + 1))>>)

\* the caller's c1, c2 after polydiv: the long division works inside c1
polydiv_mem(a1, a2) ==
    LET s == as_series(<<a1, a2>>, TRUE)
    IN  IF s.exc # "None" THEN <<a1, a2>>
        ELSE LET c1 == s.val[1]
                 c2 == s.val[2]
                 len1 == Len(c1)
                 len2 == Len(c2)
             IN  IF ZeroDivisor(c2) \/ len2 = 1 \/ len1 < len2 THEN <<a1, a2>>
                 ELSE LET c2n == DivBy(SubSeq(c2, 1, len2 - 1), c2[len2])
                          fin == DivLoop(c1, c2n, len1 - len2, len1 - 1)
                      IN  Store(<<a1, a2>>, SeriesOwner(1), fin[1])

\* a slip: for i in range(2, power)
RECURSIVE PowLoop_short(_, _, _, _)
PowLoop_short(prd, cs, i, power) ==
    IF i < power THEN PowLoop_short(convolve(prd, cs), cs, i + 1, power) ELSE prd

\* for i in range(2, power + 1): prd = np.convolve(prd, cs)
RECURSIVE PowLoop(_, _, _, _)
PowLoop(prd, cs, i, power) ==
    IF i <= power THEN PowLoop(convolve(prd, cs), cs, i + 1, power) ELSE prd

\* a slip: power >= maxpower
TooLarge_ge(power, maxpower) == maxpower # <<>> /\ ~RLess(power, maxpower[1])

\* maxpower is not None and power > maxpower; maxpower is <<>> (None) or <<n>>
TooLarge(power, maxpower) == maxpower # <<>> /\ RLess(maxpower[1], power)

\* a slip: the power is checked before the series is canonicalized
polypow_power_first(a, pow, maxpower) ==
    LET s == as_series(<<a>>, TRUE)
        power == Trunc(pow)
    IN  IF power # pow \/ RLess(power, Zero) THEN Raise("ValueError")
        ELSE IF TooLarge(power, maxpower) THEN Raise("ValueError")
        ELSE IF s.exc # "None" THEN s
        ELSE IF power = Zero THEN Ok(<<One>>)
        ELSE IF power = One THEN Ok(s.val[1])
        ELSE Ok(PowLoop(s.val[1], s.val[1], 2, power[1]))

polypow(a, pow, maxpower) ==
    LET s == as_series(<<a>>, TRUE)
    IN  IF s.exc # "None" THEN s
        ELSE LET cs == s.val[1]
                 power == Trunc(pow)
             IN  IF power # pow \/ RLess(power, Zero) THEN Raise("ValueError")
                 ELSE IF TooLarge(power, maxpower) THEN Raise("ValueError")
                 ELSE IF power = Zero THEN Ok(<<One>>)
                 ELSE IF power = One THEN Ok(cs)
                 ELSE Ok(PowLoop(cs, cs, 2, power[1]))

(***************************************************************************)
(* Evaluation.                                                             *)
(***************************************************************************)
\* a slip: for i in range(2, len(c))
RECURSIVE HornerLoop_short(_, _, _, _)
HornerLoop_short(c0, c, x, i) ==
    IF i < Len(c)
    THEN HornerLoop_short(RAdd(c[Len(c) - i + 1], RMul(c0, x)), c, x, i + 1)
    ELSE c0

\* for i in range(2, len(c) + 1): c0 = c[-i] + c0*x
RECURSIVE HornerLoop(_, _, _, _)
HornerLoop(c0, c, x, i) ==
    IF i <= Len(c)
    THEN HornerLoop(RAdd(c[Len(c) - i + 1], RMul(c0, x)), c, x, i + 1)
    ELSE c0

\* scalar x, 1-D c
polyval(x, c) ==
    IF Len(c) = 0 THEN Raise("IndexError")
    ELSE Ok(HornerLoop(RAdd(c[Len(c)], RMul(x, Zero)), c, x, 2))

(***************************************************************************)
(* Calculus (1-D c, axis = 0).                                             *)
(***************************************************************************)
\* a slip: der[j - 1] = (j - 1)*c[j]
DerStep_wrong_factor(c, scl) ==
    LET n == Len(c) - 1
        cs == Scale(c, scl)
    IN  [t \in 1..n |-> RMul(IntR(t - 1), cs[t + 1])]

\* n = n - 1; c *= scl; for j in range(n, 0, -1): der[j - 1] = j*c[j]
DerStep(c, scl) ==
    LET n == Len(c) - 1
        cs == Scale(c, scl)
    IN  [t \in 1..n |-> RMul(IntR(t), cs[t + 1])]

\* a slip: c *= scl in the first pass only
RECURSIVE DerLoop_scale_once(_, _, _)
DerLoop_scale_once(c, scl, cnt) ==
    IF cnt = 0 THEN c ELSE DerLoop_scale_once(DerStep(c, scl), One, cnt - 1)

\* for i in range(cnt): ...; c = der
RECURSIVE DerLoop(_, _, _)
DerLoop(c, scl, cnt) == IF cnt = 0 THEN c ELSE DerLoop(DerStep(c, scl), scl, cnt - 1)

\* a slip: np.array(c, ndmin=1, copy=0) works in the caller's array
ArrayOwner_nocopy(i) == i

\* np.array(c, ndmin=1, copy=1) is a buffer of the call's own
ArrayOwner(i) == 0

\* the caller's c after polyder: the first c *= scl is in place
polyder_mem(c, m, scl) ==
    LET cnt == Trunc(m)
    IN  IF cnt = m /\ cnt[1] > 0 /\ cnt[1] < Len(c)
        THEN Store(<<c>>, ArrayOwner(1), Scale(c, scl))
        ELSE <<c>>

polyder(c, m, scl) ==
    LET cnt == Trunc(m)
    IN  IF cnt # m THEN Raise("ValueError")
        ELSE IF RLess(cnt, Zero) THEN Raise("ValueError")
        ELSE IF cnt = Zero THEN Ok(c)
        ELSE IF cnt[1] >= Len(c) THEN Ok(Scale(First(c), Zero))
        ELSE Ok(DerLoop(c, scl, cnt[1]))

\* a slip: tmp[j + 1] = c[j]/j
IntStep_wrong_divisor(c, ki, lbnd, scl) ==
    LET n == Len(c)
        cs == Scale(c, scl)
    IN  IF n = 1 /\ cs[1] = Zero THEN <<RAdd(cs[1], ki)>>
        ELSE LET tmp == [t \in 1..(n + 1) |->
                            IF t = 1 THEN RMul(cs[1], Zero)
                            ELSE IF t = 2 THEN cs[1]
                            ELSE RDiv(cs[t - 1], IntR(t - 2))]
             IN  [tmp EXCEPT ![1] = RAdd(tmp[1], RSub(ki, polyval(lbnd, tmp).val))]

\* one pass of the integration loop, with k[i] = ki
IntStep(c, ki, lbnd, scl) ==
    LET n == Len(c)
        cs == Scale(c, scl)
    IN  IF n = 1 /\ cs[1] = Zero THEN <<RAdd(cs[1], ki)>>
        ELSE LET tmp == [t \in 1..(n + 1) |->
                            IF t = 1 THEN RMul(cs[1], Zero)
                            ELSE IF t = 2 THEN cs[1]
                            ELSE RDiv(cs[t - 1], IntR(t - 1))]
             IN  [tmp EXCEPT ![1] = RAdd(tmp[1], RSub(ki, polyval(lbnd, tmp).val))]

\* for i in range(cnt): ...     (Python index i)
RECURSIVE IntLoop(_, _, _, _, _, _)
IntLoop(c, k, lbnd, scl, i, cnt) ==
    IF i >= cnt THEN c
    ELSE IntLoop(IntStep(c, k[i + 1], lbnd, scl), k, lbnd, scl, i + 1, cnt)

\* a slip: k = list(k) + [1]*(cnt - len(k))
PadK_ones(k, cnt) == [t \in 1..cnt |-> IF t <= Len(k) THEN k[t] ELSE One]

\* k = list(k) + [0]*(cnt - len(k))
PadK(k, cnt) == [t \in 1..cnt |-> IF t <= Len(k) THEN k[t] ELSE Zero]

\* the array polyint starts with, after the loop: c *= scl and c[0] += k[i]
\* are in place until c = tmp takes a new array
RECURSIVE IntInPlace(_, _, _, _, _)
IntInPlace(c, k, scl, i, cnt) ==
    IF i >= cnt THEN c
    ELSE LET cs == Scale(c, scl)
         IN  IF Len(c) = 1 /\ cs[1] = Zero
             THEN IntInPlace(<<RAdd(cs[1], k[i + 1])>>, k, scl, i + 1, cnt)
             ELSE cs

\* the caller's c after polyint
polyint_mem(c, m, k, lbnd, scl) ==
    LET cnt == Trunc(m)
    IN  IF cnt = m /\ cnt[1] > 0 /\ Len(k) <= cnt[1]
        THEN Store(<<c>>, ArrayOwner(1), IntInPlace(c, PadK(k, cnt[1]), scl, 0, cnt[1]))
        ELSE <<c>>

polyint(c, m, k, lbnd, scl) ==
    LET cnt == Trunc(m)
    IN  IF cnt # m THEN Raise("ValueError")
        ELSE IF RLess(cnt, Zero) THEN Raise("ValueError")
        ELSE IF Len(k) > cnt[1] THEN Raise("ValueError")
        ELSE IF cnt = Zero THEN Ok(c)
        ELSE IF Len(c) = 0 THEN Raise("IndexError")
        ELSE Ok(IntLoop(c, PadK(k, cnt[1]), lbnd, scl, 0, cnt[1]))

(***************************************************************************)
(* Vandermonde matrix (1-D x).  An array of shape (r, c) is the record of  *)
(* its shape and its r rows.                                               *)
(***************************************************************************)
\* a slip: v[i] = v[i-1]*v[i-1]
VRow_squares(prev, x) == [t \in 1..Len(x) |-> RMul(prev[t], prev[t])]

\* v[i] = v[i-1]*x
VRow(prev, x) == [t \in 1..Len(x) |-> RMul(prev[t], x[t])]

\* rows v[0..i-1] are built; for i in range(i, ideg + 1): v[i] = v[i-1]*x
RECURSIVE VLoop(_, _, _, _)
VLoop(v, x, i, ideg) ==
    IF i <= ideg THEN VLoop(Append(v, VRow(v[i], x)), x, i + 1, ideg) ELSE v

\* np.rollaxis(v, 0, v.ndim) for a 2-D v
rollaxis(v) ==
    [shape |-> <<v.shape[2], v.shape[1]>>,
     rows |-> [p \in 1..v.shape[2] |-> [q \in 1..v.shape[1] |-> v.rows[q][p]]]]

polyvander(x, deg) ==
    LET ideg == Trunc(deg)
    IN  IF ideg # deg THEN Raise("ValueError")
        ELSE IF RLess(ideg, Zero) THEN Raise("ValueError")
        ELSE LET v0 == [t \in 1..Len(x) |-> RAdd(RMul(x[t], Zero), One)]
                 rows == IF ideg[1] > 0 THEN VLoop(<<v0, x>>, x, 2, ideg[1]) ELSE <<v0>>
             IN  Ok(rollaxis([shape |-> <<ideg[1] + 1, Len(x)>>, rows |-> rows]))

\* the names bound when the body of polyvander3d runs: its parameters and
\* local variables, and the names of the module
Names3d ==
    {"x", "y", "z", "deg", "ideg", "is_valid", "degx", "degy", "degz",
     "np", "la", "pu", "warnings", "polytemplate", "polytrim", "polydomain",
     "polyzero", "polyone", "polyx", "polyline", "polyfromroots", "polyadd",
     "polysub", "polymulx", "polymul", "polydiv", "polypow", "polyder",
     "polyint", "polyval", "polyval2d", "polygrid2d", "polyval3d",
     "polygrid3d", "polyvander", "polyvander2d", "polyvander3d", "polyfit",
     "polyroots"}

\* is_valid != [1, 1, 1] for the list deg of three degrees
InvalidDegrees(deg) ==
    \E t \in 1..3 : Trunc(deg[t]) # deg[t] \/ RLess(Trunc(deg[t]), Zero)

\* np.einsum("...i,...j,...k->...ijk", vx, vy, vz) reshaped to
\* v.shape[:-3] + (-1,), for 2-D vx, vy, vz
einsum3(vx, vy, vz) ==
    LET ox == vx.shape[2]
        oy == vy.shape[2]
        oz == vz.shape[2]
    IN  [shape |-> <<vx.shape[1], ox * oy * oz>>,
         rows |-> [s \in 1..vx.shape[1] |->
                    [t \in 1..(ox * oy * oz) |->
                        RMul(RMul(vx.rows[s][((t - 1) \div (oy * oz)) + 1],
                                  vy.rows[s][(((t - 1) \div oz) % oy) + 1]),
                             vz.rows[s][((t - 1) % oz) + 1])]]]

\* the body reads deg_x, deg_y, deg_z: a name that is not bound raises
\* NameError when the arguments of the first call of polyvander are evaluated
polyvander3d(x, y, z, deg) ==
    IF InvalidDegrees(deg)
    THEN RaiseMsg("ValueError", "degrees must be non-negative integers")
    ELSE IF ~({"deg_x", "deg_y", "deg_z"} \subseteq Names3d) THEN Raise("NameError")
    ELSE Ok(einsum3(polyvander(x, deg[1]).val, polyvander(y, deg[2]).val,
                    polyvander(z, deg[3]).val))

(***************************************************************************)
(* Roots.  A matrix is the sequence of its rows.                           *)
(***************************************************************************)
\* a slip: cmat.flat[1::n+1] = 1
DiagStart_super(n) == 1

\* the first flat index of cmat.flat[n::n+1]
DiagStart(n) == n

\* a slip: cmat[:,-1] -= cs[:-1], without the division by cs[-1]
companion_unscaled(cs) ==
    LET n == Len(cs) - 1
        ones == {f \in 0..(n * n - 1) : f >= DiagStart(n) /\ (f - DiagStart(n)) % (n + 1) = 0}
        col == SubSeq(cs, 1, n)
    IN  [r \in 1..n |-> [c \in 1..n |->
            LET e == IF ((r - 1) * n + (c - 1)) \in ones THEN One ELSE Zero
            IN  IF c = n THEN RSub(e, col[r]) ELSE e]]

\* cmat = np.zeros((n,n)); cmat.flat[n::n+1] = 1; cmat[:,-1] -= cs[:-1]/cs[-1]
companion(cs) ==
    LET n == Len(cs) - 1
        ones == {f \in 0..(n * n - 1) : f >= DiagStart(n) /\ (f - DiagStart(n)) % (n + 1) = 0}
        col == DivBy(SubSeq(cs, 1, n), cs[n + 1])
    IN  [r \in 1..n |-> [c \in 1..n |->
            LET e == IF ((r - 1) * n + (c - 1)) \in ones THEN One ELSE Zero
            IN  IF c = n THEN RSub(e, col[r]) ELSE e]]

\* the determinant, expanded along the first row
RECURSIVE Det(_)
Det(M) ==
    IF Len(M) = 0 THEN One
    ELSE LET n == Len(M)
             Minor(c) == [r \in 1..(n - 1) |-> [q \in 1..(n - 1) |->
                            M[r + 1][IF q < c THEN q ELSE q + 1]]]
             Term(c) == RMul(IF c % 2 = 1 THEN M[1][c] ELSE RNeg(M[1][c]), Det(Minor(c)))
             Sum[c \in 0..n] == IF c = 0 THEN Zero ELSE RAdd(Sum[c - 1], Term(c))
         IN  Sum[n]

\* the numbers an eigenvalue is looked for among, and the value that stands
\* for every other eigenvalue
EigCandidates == {Rat(n, 2) : n \in (-4)..4}
Unknown == <<0, 0>>

Injections(n, S) == {p \in [1..n -> S] : \A i, j \in 1..n : i # j => p[i] # p[j]}

\* la.eigvals(M): the eigenvalues in an unspecified order.  n distinct
\* rational eigenvalues are returned exactly; otherwise the values are unknown.
eigvals(M) ==
    LET n == Len(M)
        found == {l \in EigCandidates :
                    Det([r \in 1..n |-> [c \in 1..n |->
                        IF r = c THEN RSub(M[r][c], l) ELSE M[r][c]]]) = Zero}
    IN  IF Cardinality(found) = n THEN Injections(n, found)
        ELSE {[i \in 1..n |-> Unknown]}

\* roots.sort(): ascending, by insertion
RECURSIVE Insert(_, _)
Insert(sorted, x) ==
    IF Len(sorted) = 0 THEN <<x>>
    ELSE IF RLess(x, sorted[1]) THEN <<x>> \o sorted
    ELSE <<sorted[1]>> \o Insert(Tail(sorted), x)

RECURSIVE sort(_)
sort(a) == IF Len(a) = 0 THEN a ELSE Insert(sort(SubSeq(a, 1, Len(a) - 1)), a[Len(a)])

\* polyroots, given the answer ev of la.eigvals when it is asked
polyroots(a, ev) ==
    LET s == as_series(<<a>>, TRUE)
    IN  IF s.exc # "None" THEN s
        ELSE LET cs == s.val[1]
             IN  IF Len(cs) <= 1 THEN Ok(<<>>)
                 ELSE IF Len(cs) = 2 THEN Ok(<<RDiv(RNeg(cs[1]), cs[2])>>)
                 ELSE Ok(sort(ev))

\* whether polyroots(a) reaches la.eigvals
AsksEigvals(a) == as_series(<<a>>, TRUE).exc = "None" /\ Len(trimseq(a)) >= 3

\* what polyroots(a) hands out: the companion matrix, to la.eigvals
polyroots_ext(a) ==
    IF AsksEigvals(a) THEN <<[ev |-> "eigvals", arg |-> companion(trimseq(a))]>> ELSE <<>>

\* the answers la.eigvals may give to polyroots(a)
EigAnswers(a) == IF AsksEigvals(a) THEN eigvals(companion(trimseq(a))) ELSE {<<>>}

(***************************************************************************)
(* Fitting.  The arguments x, y, w of polyfit are arrays of any rank: the  *)
(* record of a shape and of the elements in row-major order.               *)
(***************************************************************************)
\* a slip: y = np.asarray(y), without the copy that + 0.0 makes
PlusZeroOwner_same(i) == i

\* np.asarray(a) + 0.0 is a new array
PlusZeroOwner(i) == 0

\* a slip: only the 0-d y is refused
BadYRank_only_0d(y) == Len(y.shape) < 1

\* y.ndim < 1 or y.ndim > 2
BadYRank(y) == Len(y.shape) < 1 \/ Len(y.shape) > 2

\* the argument checks of polyfit, up to the call of polyvander
FitArgError(x, y, deg) ==
    IF RLess(deg, Zero) THEN RaiseMsg("ValueError", "expected deg >= 0")
    ELSE IF Len(x.shape) # 1 THEN RaiseMsg("TypeError", "expected 1D vector for x")
    ELSE IF Len(x.data) = 0 THEN RaiseMsg("TypeError", "expected non-empty vector for x")
    ELSE IF BadYRank(y)
         THEN RaiseMsg("TypeError", "expected 1D or 2D array for y")
    ELSE IF x.shape[1] # y.shape[1]
         THEN RaiseMsg("TypeError", "expected x and y to have same length")
    ELSE Ok(<<>>)

\* the checks of the weights; w is <<>> (None) or <<array>>
FitWeightError(x, w) ==
    IF w = <<>> THEN Ok(<<>>)
    ELSE IF Len(w[1].shape) # 1 THEN RaiseMsg("TypeError", "expected 1D vector for w")
    ELSE IF x.shape[1] # w[1].shape[1]
         THEN RaiseMsg("TypeError", "expected x and w to have same length")
    ELSE Ok(<<>>)

\* lhs *= w[:, np.newaxis]
WeightRows(rows, w) == [i \in 1..Len(rows) |-> Scale(rows[i], w[i])]

\* rhs *= w, or rhs *= w[:, np.newaxis] for a 2-D rhs: row i is scaled by w[i]
WeightRhs(y, w) ==
    LET cols == IF Len(y.shape) = 2 THEN y.shape[2] ELSE 1
    IN  [t \in 1..Len(y.data) |-> RMul(y.data[t], w[((t - 1) \div cols) + 1])]

\* everything up to the solver: an error, or the least squares matrices
FitSetup(x, y, deg, w) ==
    LET e1 == FitArgError(x, y, deg)
        van == polyvander(x.data, deg)
        e2 == FitWeightError(x, w)
    IN  IF e1.exc # "None" THEN e1
        ELSE IF van.exc # "None" THEN van
        ELSE IF e2.exc # "None" THEN e2
        ELSE IF w = <<>> THEN Ok([lhs |-> van.val.rows, rhs |-> y.data])
        ELSE Ok([lhs |-> WeightRows(van.val.rows, w[1].data), rhs |-> WeightRhs(y, w[1].data)])

\* the columns j with scl[j] = 0, scl = np.sqrt((lhs*lhs).sum(0))
ZeroNormColumns(lhs) == {j \in 1..Len(lhs[1]) : \A i \in 1..Len(lhs) : lhs[i][j] = Zero}

\* la.lstsq(lhs/scl, rhs, rcond): a rank up to the smaller dimension.  When a
\* column norm is 0 the matrix handed over holds 0/0 = NaN, and the solver
\* may also fail.
lstsq(lhs) ==
    LET ranks == {[exc |-> "None", rank |-> r] :
                    r \in 0..(IF Len(lhs) < Len(lhs[1]) THEN Len(lhs) ELSE Len(lhs[1]))}
    IN  IF ZeroNormColumns(lhs) # {} THEN ranks \cup {[exc |-> "LinAlgError", rank |-> 0]}
        ELSE ranks

\* a slip: the warning does not look at full
Warns_ignoring_full(rank, order, full) == rank # order

\* if rank != order and not full
Warns(rank, order, full) == rank # order /\ ~full

\* the answers la.lstsq may give to the call, <<>> when it is not reached
FitAnswers(x, y, deg, w) ==
    LET st == FitSetup(x, y, deg, w)
    IN  IF st.exc # "None" THEN {[exc |-> "None", rank |-> 0]} ELSE lstsq(st.val.lhs)

\* polyfit, given the answer ans of la.lstsq when it is asked; the numbers of
\* the fit are left as the names c, resids, s, rcond
polyfit(x, y, deg, full, w, ans) ==
    LET st == FitSetup(x, y, deg, w)
    IN  IF st.exc # "None" THEN st
        ELSE IF ans.exc # "None" THEN Raise(ans.exc)
        ELSE IF full THEN Ok(<<"c", <<"resids", ans.rank, "s", "rcond">>>>)
        ELSE Ok(<<"c">>)

\* what polyfit sends out: the matrices to la.lstsq (with the columns that
\* hold NaN, and the answer), then the warning
polyfit_ext(x, y, deg, full, w, ans) ==
    LET st == FitSetup(x, y, deg, w)
        order == Trunc(deg)[1] + 1
    IN  IF st.exc # "None" THEN <<>>
        ELSE <<[ev |-> "lstsq", arg |-> st.val, nan |-> ZeroNormColumns(st.val.lhs), ans |-> ans]>>
             \o (IF ans.exc = "None" /\ Warns(ans.rank, order, full)
                 THEN <<[ev |-> "warn", arg |-> "RankWarning"]>> ELSE <<>>)

\* the caller's x, y, w after polyfit: rhs *= w is in place
polyfit_mem(x, y, deg, w) ==
    LET st == FitSetup(x, y, deg, w)
        m0 == <<x.data, y.data>> \o (IF w = <<>> THEN <<>> ELSE <<w[1].data>>)
    IN  IF st.exc # "None" \/ w = <<>> THEN m0
        ELSE Store(m0, PlusZeroOwner(2), st.val.rhs)

(***************************************************************************)
(* Inputs.                                                                 *)
(***************************************************************************)
Coefs == {IntR(n) : n \in (-1)..MaxCoef}

RECURSIVE SeqsUpTo(_, _)
SeqsUpTo(S, n) ==
    IF n = 0 THEN {<<>>}
    ELSE LET shorter == SeqsUpTo(S, n - 1)
         IN  shorter \cup {Append(q, e) : q \in {r \in shorter : Len(r) = n - 1}, e \in S}

\* 1-D coefficient arrays, the empty array included
Arrays == SeqsUpTo(Coefs, MaxLen)
Series == Arrays \ {<<>>}
\* what a caller may pass as coefficients: a non-1-D array too
ArrayLikes == Arrays \cup {TwoD}

\* orders, powers and degrees: the halves from -1 up to the bound
Halves(max) == {Rat(n, 2) : n \in (-2)..(2 * max)}
\* maxpower: None or an integer
MaxPowers == {<<>>} \cup {<<IntR(n)>> : n \in 0..MaxPow}
\* scl
Scales == {IntR(1), IntR(2), IntR(-1), Rat(1, 2), Zero}
\* integration constants k and lower bounds lbnd
Consts == SeqsUpTo({Zero, One}, MaxOrd)
Bounds == {Zero, One}
\* roots, and what polyroots is called with: any array and any polyfromroots result
Roots == {IntR(-1), Zero, One, Rat(1, 2)}
RootLists == SeqsUpTo(Roots, MaxRoots)
FromRootsTable == [rs \in RootLists |-> polyfromroots(rs).val]
RootsInputs == ArrayLikes \cup {FromRootsTable[rs] : rs \in RootLists}
\* the sequences of n elements of S
SeqsOfLen(S, n) == {r \in SeqsUpTo(S, n) : Len(r) = n}
\* arguments of polyfit: 0-d, 1-D and 2-D arrays
ArraysOfShape(shape, n, S) == {[shape |-> shape, data |-> q] : q \in SeqsOfLen(S, n)}
FitXs ==
    UNION {ArraysOfShape(<<n>>, n, {Zero, One}) : n \in 0..MaxPts}
        \cup ArraysOfShape(<<>>, 1, {One}) \cup ArraysOfShape(<<1, 1>>, 1, {One})
FitYs ==
    UNION {ArraysOfShape(<<n>>, n, {One}) \cup ArraysOfShape(<<n, 1>>, n, {One}) : n \in 1..MaxPts}
        \cup ArraysOfShape(<<>>, 1, {One}) \cup ArraysOfShape(<<1, 1, 1>>, 1, {One})
FitWs ==
    {<<>>} \cup {<<a>> : a \in
        UNION {ArraysOfShape(<<n>>, n, {Zero, IntR(2)}) : n \in 1..MaxPts}
            \cup ArraysOfShape(<<>>, 1, {IntR(2)}) \cup ArraysOfShape(<<1, 1>>, 1, {IntR(2)})}
\* sample arrays x, y, z of one shape and lists of three degrees
Samples3d ==
    UNION {{<<x, y, z>> : x \in SeqsOfLen({Zero, IntR(2)}, n), y \in SeqsOfLen({One, IntR(2)}, n),
                          z \in SeqsOfLen({IntR(-1), IntR(2)}, n)} : n \in 1..MaxPts}
Degrees3d == {<<a, b, c>> : a \in Halves(1), b \in Halves(1), c \in Halves(1)}
\* evaluation points and sample arrays
Points == {IntR(-1), Zero, Rat(1, 2), IntR(2)}
Samples == SeqsUpTo(Points, MaxPts)

(***************************************************************************)
(* The calls.                                                              *)
(***************************************************************************)
Init ==
    /\ fn = "none"
    /\ args = <<>>
    /\ ret = Ok(<<>>)
    /\ mem = <<>>
    /\ ext = <<>>
    /\ steps = 0

Call_polyadd ==
    /\ fn = "none"
    /\ \E c1 \in ArrayLikes, c2 \in ArrayLikes :
        /\ fn' = "polyadd"
        /\ args' = <<c1, c2>>
        /\ ret' = polyadd(c1, c2)
        /\ mem' = polyadd_mem(c1, c2)
    /\ ext' = <<>>
    /\ steps' = steps + 1

Call_polysub ==
    /\ fn = "none"
    /\ \E c1 \in ArrayLikes, c2 \in ArrayLikes :
        /\ fn' = "polysub"
        /\ args' = <<c1, c2>>
        /\ ret' = polysub(c1, c2)
        /\ mem' = polysub_mem(c1, c2)
    /\ ext' = <<>>
    /\ steps' = steps + 1

Call_polymul ==
    /\ fn = "none"
    /\ \E c1 \in ArrayLikes, c2 \in ArrayLikes :
        /\ fn' = "polymul"
        /\ args' = <<c1, c2>>
        /\ ret' = polymul(c1, c2)
        /\ mem' = <<c1, c2>>
    /\ ext' = <<>>
    /\ steps' = steps + 1

Call_polydiv ==
    /\ fn = "none"
    /\ \E c1 \in ArrayLikes, c2 \in ArrayLikes :
        /\ fn' = "polydiv"
        /\ args' = <<c1, c2>>
        /\ ret' = polydiv(c1, c2)
        /\ mem' = polydiv_mem(c1, c2)
    /\ ext' = <<>>
    /\ steps' = steps + 1

Call_polypow ==
    /\ fn = "none"
    /\ \E c \in ArrayLikes, pow \in Halves(MaxPow), maxpower \in MaxPowers :
        /\ fn' = "polypow"
        /\ args' = <<c, pow, maxpower>>
        /\ ret' = polypow(c, pow, maxpower)
        /\ mem' = <<c>>
    /\ ext' = <<>>
    /\ steps' = steps + 1

Call_polyder ==
    /\ fn = "none"
    /\ \E c \in Arrays, m \in Halves(MaxOrd), scl \in Scales :
        /\ fn' = "polyder"
        /\ args' = <<c, m, scl>>
        /\ ret' = polyder(c, m, scl)
        /\ mem' = polyder_mem(c, m, scl)
    /\ ext' = <<>>
    /\ steps' = steps + 1

Call_polyint ==
    /\ fn = "none"
    /\ \E c \in Arrays, m \in Halves(MaxOrd), k \in Consts, lbnd \in Bounds, scl \in Scales :
        /\ fn' = "polyint"
        /\ args' = <<c, m, k, lbnd, scl>>
        /\ ret' = polyint(c, m, k, lbnd, scl)
        /\ mem' = polyint_mem(c, m, k, lbnd, scl)
    /\ ext' = <<>>
    /\ steps' = steps + 1

Call_polyval ==
    /\ fn = "none"
    /\ \E x \in Points, c \in Arrays :
        /\ fn' = "polyval"
        /\ args' = <<x, c>>
        /\ ret' = polyval(x, c)
        /\ mem' = <<c>>
    /\ ext' = <<>>
    /\ steps' = steps + 1

Call_polyvander ==
    /\ fn = "none"
    /\ \E x \in Samples, deg \in Halves(MaxDeg) :
        /\ fn' = "polyvander"
        /\ args' = <<x, deg>>
        /\ ret' = polyvander(x, deg)
        /\ mem' = <<x>>
    /\ ext' = <<>>
    /\ steps' = steps + 1

Call_polymulx ==
    /\ fn = "none"
    /\ \E c \in ArrayLikes :
        /\ fn' = "polymulx"
        /\ args' = <<c>>
        /\ ret' = polymulx(c)
        /\ mem' = <<c>>
    /\ ext' = <<>>
    /\ steps' = steps + 1

Call_polyfromroots ==
    /\ fn = "none"
    /\ \E roots \in RootLists \cup {TwoD} :
        /\ fn' = "polyfromroots"
        /\ args' = <<roots>>
        /\ ret' = polyfromroots(roots)
        /\ mem' = <<roots>>
    /\ ext' = <<>>
    /\ steps' = steps + 1

Call_polyroots ==
    /\ fn = "none"
    /\ \E cs \in RootsInputs :
        \E ev \in EigAnswers(cs) :
            /\ fn' = "polyroots"
            /\ args' = <<cs>>
            /\ ret' = polyroots(cs, ev)
            /\ mem' = <<cs>>
            /\ ext' = polyroots_ext(cs)
    /\ steps' = steps + 1

Call_polyvander3d ==
    /\ fn = "none"
    /\ \E xyz \in Samples3d, deg \in Degrees3d :
        /\ fn' = "polyvander3d"
        /\ args' = <<xyz[1], xyz[2], xyz[3], deg>>
        /\ ret' = polyvander3d(xyz[1], xyz[2], xyz[3], deg)
        /\ mem' = xyz
    /\ ext' = <<>>
    /\ steps' = steps + 1

Call_polyfit ==
    /\ fn = "none"
    /\ \E x \in FitXs, y \in FitYs, deg \in Halves(MaxDeg), full \in BOOLEAN, w \in FitWs :
        \E ans \in FitAnswers(x, y, deg, w) :
            /\ fn' = "polyfit"
            /\ args' = <<x, y, deg, full, w>>
            /\ ret' = polyfit(x, y, deg, full, w, ans)
            /\ mem' = polyfit_mem(x, y, deg, w)
            /\ ext' = polyfit_ext(x, y, deg, full, w, ans)
    /\ steps' = steps + 1

Next ==
    \/ Call_polyadd
    \/ Call_polysub
    \/ Call_polymul
    \/ Call_polydiv
    \/ Call_polypow
    \/ Call_polyder
    \/ Call_polyint
    \/ Call_polyval
    \/ Call_polyvander
    \/ Call_polymulx
    \/ Call_polyfromroots
    \/ Call_polyroots
    \/ Call_polyvander3d
    \/ Call_polyfit

Spec == Init /\ [][Next]_vars

(***************************************************************************)
(* Sequences of calls: each call takes a series the call before returned   *)
(* (the quotient or the remainder after polydiv) as one of its operands.   *)
(***************************************************************************)
\* the series a sequence starts from, and the other operands
ChainSeeds == SeqsOfLen(Coefs, 1) \cup SeqsOfLen(Coefs, 2)
ChainOperands == {<<Zero>>, <<IntR(2)>>, <<IntR(-1), One>>, <<One, One, Zero>>}
ChainPowers == {IntR(n) : n \in 0..2}

InitChain ==
    /\ fn = "none"
    /\ args = <<>>
    /\ ret \in {Ok(c) : c \in ChainSeeds}
    /\ mem = <<>>
    /\ ext = <<>>
    /\ steps = 0

\* the series the last call returned
Returned == IF fn = "polydiv" THEN {ret.val[1], ret.val[2]} ELSE {ret.val}

\* the operand pairs of the next binary call
ChainPairs ==
    {<<c, c2>> : c \in Returned, c2 \in ChainOperands}
        \cup {<<c2, c>> : c \in Returned, c2 \in ChainOperands}
        \cup {<<c, c>> : c \in Returned}

ChainOn == steps < MaxSteps /\ ret.exc = "None"

Then_polyadd ==
    /\ ChainOn
    /\ \E p \in ChainPairs :
        /\ fn' = "polyadd"
        /\ args' = p
        /\ ret' = polyadd(p[1], p[2])
        /\ mem' = polyadd_mem(p[1], p[2])
    /\ ext' = <<>>
    /\ steps' = steps + 1

Then_polysub ==
    /\ ChainOn
    /\ \E p \in ChainPairs :
        /\ fn' = "polysub"
        /\ args' = p
        /\ ret' = polysub(p[1], p[2])
        /\ mem' = polysub_mem(p[1], p[2])
    /\ ext' = <<>>
    /\ steps' = steps + 1

Then_polymul ==
    /\ ChainOn
    /\ \E p \in ChainPairs :
        /\ fn' = "polymul"
        /\ args' = p
        /\ ret' = polymul(p[1], p[2])
        /\ mem' = p
    /\ ext' = <<>>
    /\ steps' = steps + 1

Then_polydiv ==
    /\ ChainOn
    /\ \E p \in ChainPairs :
        /\ fn' = "polydiv"
        /\ args' = p
        /\ ret' = polydiv(p[1], p[2])
        /\ mem' = polydiv_mem(p[1], p[2])
    /\ ext' = <<>>
    /\ steps' = steps + 1

Then_polymulx ==
    /\ ChainOn
    /\ \E c \in Returned :
        /\ fn' = "polymulx"
        /\ args' = <<c>>
        /\ ret' = polymulx(c)
        /\ mem' = <<c>>
    /\ ext' = <<>>
    /\ steps' = steps + 1

Then_polypow ==
    /\ ChainOn
    /\ \E c \in Returned, pow \in ChainPowers :
        /\ fn' = "polypow"
        /\ args' = <<c, pow, <<>>>>
        /\ ret' = polypow(c, pow, <<>>)
        /\ mem' = <<c>>
    /\ ext' = <<>>
    /\ steps' = steps + 1

NextChain ==
    \/ Then_polyadd
    \/ Then_polysub
    \/ Then_polymul
    \/ Then_polydiv
    \/ Then_polymulx
    \/ Then_polypow

SpecChain == InitChain /\ [][NextChain]_vars

(***************************************************************************)
(* Properties.                                                             *)
(***************************************************************************)
IsZeroSeries(c) == \A t \in 1..Len(c) : c[t] = Zero
\* a non-empty 1-D array
IsSeries(a) == Len(a) > 0 /\ ndim(a) = 1
BothGiven == IsSeries(args[1]) /\ IsSeries(args[2])
IsFraction(a) == a[2] # 1

\* C1: for c2 not the zero polynomial, polydiv(c1, c2) returns (quo, rem) with
\* polyadd(polymul(quo, c2), rem) equal to the trimmed c1, in every branch.
C1_DivReconstruction ==
    (fn = "polydiv" /\ BothGiven /\ ~IsZeroSeries(args[2]))
        => /\ ret.exc = "None"
           /\ polyadd(polymul(ret.val[1], args[2]).val, ret.val[2]) = Ok(trimseq(args[1]))

\* a long division with a fractional quotient and a nonzero remainder
C1_Witness ==
    /\ fn = "polydiv" /\ BothGiven /\ ret.exc = "None"
    /\ Len(trimseq(args[2])) >= 2
    /\ Len(trimseq(args[1])) > Len(trimseq(args[2]))
    /\ \E t \in 1..Len(ret.val[1]) : IsFraction(ret.val[1][t])
    /\ ~IsZeroSeries(ret.val[2])
    /\ polyadd(polymul(ret.val[1], args[2]).val, ret.val[2]) = Ok(trimseq(args[1]))

\* C2: polysub(polyadd(c1, c2), c2) is the trimmed c1, for all c1, c2.
C2_AddThenSub ==
    (fn = "polyadd" /\ BothGiven)
        => /\ ret.exc = "None"
           /\ polysub(ret.val, args[2]) = Ok(trimseq(args[1]))

\* c1 shorter than c2, c1 with a trailing zero, and the sum cancels the top of c2
C2_Witness ==
    /\ fn = "polyadd" /\ BothGiven /\ ret.exc = "None"
    /\ Len(args[1]) < Len(args[2])
    /\ args[1][Len(args[1])] = Zero
    /\ Len(args[1]) > 1
    /\ ~IsZeroSeries(args[2])
    /\ polysub(ret.val, args[2]) = Ok(trimseq(args[1]))

\* the sum of c1[i]*c2[k-i] over the index pairs of degree k (Python index k)
RECURSIVE SumOver(_, _, _)
SumOver(P, a, b) ==
    IF P = {} THEN Zero
    ELSE LET p == CHOOSE q \in P : TRUE
         IN  RAdd(RMul(a[p[1] + 1], b[p[2] + 1]), SumOver(P \ {p}, a, b))

CoefOfProduct(a, b, k) ==
    SumOver({p \in (0..(Len(a) - 1)) \X (0..(Len(b) - 1)) : p[1] + p[2] = k}, a, b)

\* C3: for c1, c2 nonzero after trimming, polymul(c1, c2) has length
\* len(trim(c1)) + len(trim(c2)) - 1 and coefficient k is the sum of c1[i]*c2[k-i];
\* polymul(c, [0]) is exactly [0].
C3_MulDegreeAndCoefs ==
    (fn = "polymul" /\ BothGiven)
        => /\ ret.exc = "None"
           /\ (~IsZeroSeries(args[1]) /\ ~IsZeroSeries(args[2]))
                => LET a == trimseq(args[1])
                       b == trimseq(args[2])
                   IN  /\ Len(ret.val) = Len(a) + Len(b) - 1
                       /\ \A k \in 0..(Len(ret.val) - 1) :
                            ret.val[k + 1] = CoefOfProduct(a, b, k)
           /\ args[2] = <<Zero>> => ret.val = <<Zero>>

\* a product of two series of degree >= 1, and a product of such a series by [0]
C3_Witness ==
    /\ fn = "polymul" /\ BothGiven /\ ret.exc = "None"
    /\ Len(trimseq(args[1])) >= 2 /\ Len(trimseq(args[2])) >= 2
    /\ Len(args[1]) > Len(trimseq(args[1]))
    /\ Len(ret.val) = Len(trimseq(args[1])) + Len(trimseq(args[2])) - 1
    /\ ret.val[2] = CoefOfProduct(trimseq(args[1]), trimseq(args[2]), 1)
    /\ ret.val[2] # Zero

\* C6: polydiv raises ZeroDivisionError exactly when c2 trims to the zero
\* polynomial, whatever c1 is.
C6_ZeroDivision ==
    (fn = "polydiv" /\ BothGiven)
        => (ret.exc = "ZeroDivisionError" <=> IsZeroSeries(args[2]))

\* division by [0, 0] raised the error and returned nothing
C6_Witness ==
    /\ fn = "polydiv"
    /\ args[2] = <<Zero, Zero>>
    /\ Len(args[1]) >= 2
    /\ ret = Raise("ZeroDivisionError")

\* [1] multiplied by c with polymul, n times
RECURSIVE RepeatMul(_, _)
RepeatMul(c, n) == IF n = 0 THEN <<One>> ELSE polymul(RepeatMul(c, n - 1), c).val

IsNatural(a) == a[2] = 1 /\ a[1] >= 0

\* C4: for every series c and every accepted integer p >= 0, polypow(c, p) is
\* [1] multiplied p times by c with polymul: [1] for p = 0, the trimmed c for
\* p = 1, polymul(c, c) for p = 2, the zero series included.
C4_PowIsRepeatedMul ==
    (fn = "polypow" /\ IsSeries(args[1]) /\ ret.exc = "None")
        => /\ IsNatural(args[2])
           /\ ret.val = RepeatMul(args[1], args[2][1])
           /\ args[2] = Zero => ret.val = <<One>>
           /\ args[2] = One => ret.val = trimseq(args[1])
           /\ args[2] = IntR(2) => ret.val = polymul(args[1], args[1]).val

\* a cube of a series of degree >= 1 given with a trailing zero
C4_Witness ==
    /\ fn = "polypow" /\ ret.exc = "None"
    /\ args[2] = IntR(3)
    /\ Len(trimseq(args[1])) >= 2
    /\ Len(args[1]) > Len(trimseq(args[1]))
    /\ ret.val = RepeatMul(args[1], 3)
    /\ Len(ret.val) = 3 * (Len(trimseq(args[1])) - 1) + 1

C7_WitnessZero ==
    /\ fn = "polyint" /\ args[2] = IntR(2)
    /\ args[3] = <<>> /\ args[4] = Zero /\ args[5] = One
    /\ args[1] = <<Zero>>
    /\ ret = Ok(<<Zero>>)
    /\ polyder(ret.val, args[2], One) = Ok(args[1])

\* x**n, with x**0 = 1
RECURSIVE RPow(_, _)
RPow(x, n) == IF n = 0 THEN One ELSE RMul(x, RPow(x, n - 1))

\* c[0] + c[1]*x + ... + c[n]*x**n, summed from the low end
RECURSIVE PowerSum(_, _, _)
PowerSum(x, c, t) ==
    IF t > Len(c) THEN Zero ELSE RAdd(RMul(c[t], RPow(x, t - 1)), PowerSum(x, c, t + 1))

\* C9: for scalar x and 1-D c of length n+1 >= 1, polyval(x, c) is
\* c[0] + c[1]*x + ... + c[n]*x**n; trailing zeros do not change the value and
\* a length-1 c yields c[0].
C9_Horner ==
    (fn = "polyval" /\ Len(args[2]) > 0)
        => /\ ret = Ok(PowerSum(args[1], args[2], 1))
           /\ ret = polyval(args[1], trimseq(args[2]))
           /\ Len(args[2]) = 1 => ret.val = args[2][1]

\* a quadratic evaluated at 1/2
C9_Witness ==
    /\ fn = "polyval"
    /\ args[1] = Rat(1, 2)
    /\ Len(args[2]) = 3 /\ args[2][3] # Zero /\ args[2][2] # Zero /\ args[2][1] # Zero
    /\ ret = Ok(PowerSum(args[1], args[2], 1))
    /\ IsFraction(ret.val)

\* C10: for 1-D x and integer deg >= 0, polyvander(x, deg) has shape
\* x.shape + (deg+1,) and entry [s, i] = x[s]**i; for deg = 0 it is a column
\* of ones.
C10_Vander ==
    (fn = "polyvander" /\ IsNatural(args[2]))
        => LET x == args[1]
               deg == args[2][1]
           IN  /\ ret.exc = "None"
               /\ ret.val.shape = <<Len(x), deg + 1>>
               /\ Len(ret.val.rows) = Len(x)
               /\ \A s \in 1..Len(x) :
                    /\ Len(ret.val.rows[s]) = deg + 1
                    /\ \A i \in 0..deg : ret.val.rows[s][i + 1] = RPow(x[s], i)
               /\ deg = 0 => \A s \in 1..Len(x) : ret.val.rows[s] = <<One>>

\* degree 3 at two sample points, one of them 0
C10_Witness ==
    /\ fn = "polyvander" /\ args[2] = IntR(3)
    /\ Len(args[1]) = 2 /\ args[1][1] = Zero /\ args[1][2] = IntR(2)
    /\ ret.exc = "None"
    /\ ret.val.shape = <<2, 4>>
    /\ ret.val.rows = <<<<One, Zero, Zero, Zero>>, <<One, IntR(2), IntR(4), IntR(8)>>>>

\* c with its coefficients of degree below m replaced by zero
ZeroBelow(c, m) == [t \in 1..Len(c) |-> IF t <= m THEN Zero ELSE c[t]]

\* polyint(der, m, scl=1/s) with zero constants and lbnd = 0
IntBack(der, m, s) == polyint(der, m, <<>>, Zero, RDiv(One, s))

\* C8 as stated: for every m >= 1 and nonzero s, polyint(polyder(c, m, scl=s),
\* m, scl=1/s) with zero constants and lbnd = 0 is c with only its degree-0
\* coefficient replaced by zero (compared up to trailing zeros).
C8_Original ==
    (fn = "polyder" /\ Len(args[1]) > 0 /\ IsNatural(args[2]) /\ args[2][1] >= 1
        /\ args[3] # Zero)
        => /\ ret.exc = "None"
           /\ IntBack(ret.val, args[2], args[3]).exc = "None"
           /\ trimseq(IntBack(ret.val, args[2], args[3]).val) = trimseq(ZeroBelow(args[1], 1))

\* C8 amended: the round trip recovers c with its coefficients of degree
\* below m replaced by zero, up to trailing zeros; for m = 1 that is c with
\* only its degree-0 coefficient replaced by zero.
C8_DerThenInt ==
    (fn = "polyder" /\ Len(args[1]) > 0 /\ IsNatural(args[2]) /\ args[2][1] >= 1
        /\ args[3] # Zero)
        => /\ ret.exc = "None"
           /\ IntBack(ret.val, args[2], args[3]).exc = "None"
           /\ trimseq(IntBack(ret.val, args[2], args[3]).val)
                = trimseq(ZeroBelow(args[1], args[2][1]))
           /\ args[2][1] = 1 =>
                trimseq(IntBack(ret.val, args[2], args[3]).val)
                    = trimseq([args[1] EXCEPT ![1] = Zero])

\* a second derivative with scale 2 of a quadratic with a linear term
C8_Witness ==
    /\ fn = "polyder" /\ args[2] = IntR(2) /\ args[3] = IntR(2)
    /\ Len(args[1]) = 3 /\ args[1][3] # Zero /\ args[1][2] # Zero
    /\ ret.exc = "None"
    /\ ret.val = <<RMul(IntR(8), args[1][3])>>
    /\ IntBack(ret.val, args[2], args[3]).val = <<Zero, Zero, args[1][3]>>

\* whether the entries of a are pairwise different
Distinct(a) == \A i, j \in 1..Len(a) : i # j => a[i] # a[j]
Ascending(a) == \A i \in 1..(Len(a) - 1) : RLess(a[i], a[i + 1])
SameValues(a, b) == {a[i] : i \in 1..Len(a)} = {b[i] : i \in 1..Len(b)}

\* C11: for distinct real roots rs, polyroots(polyfromroots(rs)) is rs in
\* ascending order: empty for rs = [], the single root for one element.
C11_RootsOfFromRoots ==
    fn = "polyroots"
        => \A rs \in RootLists :
            (Distinct(rs) /\ FromRootsTable[rs] = args[1])
                => /\ ret.exc = "None"
                   /\ Len(ret.val) = Len(rs)
                   /\ SameValues(ret.val, rs)
                   /\ Ascending(ret.val)

\* the roots of polyfromroots([1, -1, 1/2]), found by the eigenvalue solver
C11_Witness ==
    /\ fn = "polyroots"
    /\ args[1] = FromRootsTable[<<One, IntR(-1), Rat(1, 2)>>]
    /\ Len(ext) = 1
    /\ ret = Ok(<<IntR(-1), Rat(1, 2), One>>)

\* the length of an array argument along its first axis, -1 for a 0-d array
LenOf(a) == IF Len(a.shape) = 0 THEN -1 ELSE a.shape[1]

\* the shape conditions of polyfit on x and y
XYShapeCase(x, y) ==
    \/ Len(x.shape) # 1
    \/ Len(x.data) = 0
    \/ ~(Len(y.shape) \in {1, 2})
    \/ LenOf(x) # LenOf(y)

\* the shape conditions of polyfit on the weights
WShapeCase(x, w) == w # <<>> /\ (Len(w[1].shape) # 1 \/ LenOf(w[1]) # LenOf(x))

\* polyfit failed, returning nothing and warning of nothing
FitFailed(e) == ret.exc = e /\ ret.val = <<>> /\ \A t \in 1..Len(ext) : ext[t].ev # "warn"

\* one of the errors polyfit raises itself
OwnFitError == ret.exc # "None" /\ "msg" \in DOMAIN ret

\* C12 as stated: polyfit fails with ValueError when deg < 0, and with
\* TypeError in each shape case on x, y or w; without these it raises none of
\* its own errors.
C12_Original ==
    fn = "polyfit"
        => LET x == args[1]
               y == args[2]
               deg == args[3]
               w == args[5]
           IN  /\ RLess(deg, Zero) => FitFailed("ValueError")
               /\ (~RLess(deg, Zero) /\ (XYShapeCase(x, y) \/ WShapeCase(x, w)))
                    => FitFailed("TypeError")
               /\ (~RLess(deg, Zero) /\ ~XYShapeCase(x, y) /\ ~WShapeCase(x, w))
                    => ~OwnFitError

\* C12: polyfit fails, returning nothing and warning of nothing, with
\* ValueError when deg < 0, else with TypeError in each shape case on x and
\* y, else with the ValueError of polyvander when deg is not an integer, else
\* with TypeError in each shape case on w; without these it raises none of
\* its own errors.
C12_ArgErrors ==
    fn = "polyfit"
        => LET x == args[1]
               y == args[2]
               deg == args[3]
               w == args[5]
           IN  IF RLess(deg, Zero) THEN FitFailed("ValueError") /\ OwnFitError
               ELSE IF XYShapeCase(x, y) THEN FitFailed("TypeError") /\ OwnFitError
               ELSE IF ~IsNatural(deg) THEN FitFailed("ValueError") /\ ~OwnFitError
               ELSE IF WShapeCase(x, w) THEN FitFailed("TypeError") /\ OwnFitError
               ELSE ~OwnFitError

\* weights of the wrong length with an integer degree: TypeError
C12_Witness ==
    /\ fn = "polyfit"
    /\ args[3] = One
    /\ args[1].shape = <<2>>
    /\ args[2].shape = <<2, 1>>
    /\ args[5] # <<>>
    /\ args[5][1].shape = <<1>>
    /\ ret = RaiseMsg("TypeError", "expected x and w to have same length")
    /\ ext = <<>>

\* a 3-D y is refused with TypeError
C12_WitnessY ==
    /\ fn = "polyfit"
    /\ args[3] = Zero
    /\ args[1].shape = <<1>>
    /\ args[2].shape = <<1, 1, 1>>
    /\ ret = RaiseMsg("TypeError", "expected 1D or 2D array for y")

\* the arguments pass every check of polyfit and its call of polyvander
ValidFitArgs ==
    /\ IsNatural(args[3])
    /\ ~XYShapeCase(args[1], args[2])
    /\ ~WShapeCase(args[1], args[5])

\* polyfit emitted the rank warning
RankWarned == \E t \in 1..Len(ext) : ext[t].ev = "warn"

\* C13 as stated: with valid arguments polyfit always returns the fit; it
\* warns exactly when full is False and the rank the solver reported is less
\* than deg + 1; with full = True it returns the coefficients with
\* [residuals, rank, singular_values, rcond] and never warns.
C13_Stated ==
    (fn = "polyfit" /\ ValidFitArgs)
        => /\ ret.exc = "None"
           /\ Len(ext) >= 1
           /\ ext[1].ev = "lstsq"
           /\ RankWarned <=> (~args[4] /\ ext[1].ans.rank < args[3][1] + 1)
           /\ args[4] => ret.val = <<"c", <<"resids", ext[1].ans.rank, "s", "rcond">>>>
           /\ ~args[4] => ret.val = <<"c">>

\* C13, where the solver answers: the same, for the calls in which la.lstsq
\* returned.
C13_WhenSolved ==
    (fn = "polyfit" /\ ValidFitArgs /\ ext[1].ans.exc = "None") => C13_Stated

\* a column of the design matrix has norm 0, NaN reaches the solver, it fails
C13_ZeroNorm ==
    /\ fn = "polyfit"
    /\ ValidFitArgs
    /\ args[1].data = <<Zero, Zero>>
    /\ args[3] = One
    /\ args[5] = <<>>
    /\ ext[1].nan = {2}
    /\ ret = Raise("LinAlgError")

\* a rank-deficient fit that warns and still returns
C13_Warned ==
    /\ fn = "polyfit"
    /\ ValidFitArgs
    /\ args[1].data = <<One, One>>
    /\ args[3] = One
    /\ ~args[4]
    /\ ext[1].ans.rank = 1
    /\ RankWarned
    /\ ret = Ok(<<"c">>)

\* C14 as stated: for x, y, z of one shape and non-negative integer degrees,
\* polyvander3d completes and returns an array of shape
\* S + ((degx+1)*(degy+1)*(degz+1),) whose entry at flattened index
\* (i*(degy+1) + j)*(degz+1) + k is x**i * y**j * z**k.
C14_Stated ==
    (fn = "polyvander3d" /\ \A t \in 1..3 : IsNatural(args[4][t]))
        => LET x == args[1]
               y == args[2]
               z == args[3]
               dx == args[4][1][1]
               dy == args[4][2][1]
               dz == args[4][3][1]
           IN  /\ ret.exc = "None"
               /\ ret.val.shape = <<Len(x), (dx + 1) * (dy + 1) * (dz + 1)>>
               /\ \A s \in 1..Len(x) : \A i \in 0..dx, j \in 0..dy, k \in 0..dz :
                    ret.val.rows[s][(i * (dy + 1) + j) * (dz + 1) + k + 1]
                        = RMul(RMul(RPow(x[s], i), RPow(y[s], j)), RPow(z[s], k))

\* the arrays the caller passed to the call, as they were before it
CallerArrays ==
    IF fn \in {"polyadd", "polysub", "polymul", "polydiv"} THEN <<args[1], args[2]>>
    ELSE IF fn = "polyfit"
    THEN <<args[1].data, args[2].data>> \o (IF args[5] = <<>> THEN <<>> ELSE <<args[5][1].data>>)
    ELSE <<args[1]>>

\* C15: after a call of polyadd, polysub, polymul, polymulx, polydiv,
\* polypow, polyder, polyint or polyfit, every array the caller passed holds
\* the values it held before the call.
C15_InputsKept ==
    fn \in {"polyadd", "polysub", "polymul", "polymulx", "polydiv", "polypow",
            "polyder", "polyint", "polyfit"}
        => mem = CallerArrays

\* a long division whose working array changed: the dividend the caller
\* passed is not the remainder padded
C15_Witness ==
    /\ fn = "polydiv"
    /\ args = <<<<One, Zero, One>>, <<One, One>>>>
    /\ ret = Ok(<<<<IntR(-1), One>>, <<IntR(2)>>>>)
    /\ mem = args

\* a weighted fit: rhs *= w changed the working copy of y only
C15_WitnessFit ==
    /\ fn = "polyfit"
    /\ ret.exc = "None"
    /\ args[5] # <<>>
    /\ args[5][1].data = <<IntR(2), IntR(2)>>
    /\ ext[1].arg.rhs = <<IntR(2), IntR(2)>>
    /\ mem[2] = <<One, One>>

\* no trailing zero, except in the series [0]
Canonical(a) == Len(a) >= 1 /\ (a[Len(a)] # Zero \/ a = <<Zero>>)

\* C16: in a sequence of calls of polyadd, polysub, polymul, polymulx,
\* polypow and polydiv that starts from a non-empty 1-D series, every series
\* returned (the quotient and the remainder of polydiv both) is canonical.
C16_Canonical ==
    (fn # "none" /\ ret.exc = "None")
        => IF fn = "polydiv" THEN Canonical(ret.val[1]) /\ Canonical(ret.val[2])
           ELSE Canonical(ret.val)

\* the third call of a sequence returns the zero series from polymulx, which
\* does not trim
C16_Witness ==
    /\ steps = 3
    /\ fn = "polymulx"
    /\ args[1] = <<Zero>>
    /\ ret = Ok(<<Zero>>)

\* the third call of a sequence is a long division with a quotient of two
\* coefficients
C16_WitnessQuotient ==
    /\ steps = 3
    /\ fn = "polydiv"
    /\ ret.exc = "None"
    /\ Len(ret.val[1]) = 2
    /\ Len(args[2]) = 3

\* C17: for all series c1 and c2, polysub(c1, c2) is the elementwise
\* negation of polysub(c2, c1), and the two results have the same length.
C17_SubAntisymmetric ==
    (fn = "polysub" /\ BothGiven)
        => LET back == polysub(args[2], args[1])
           IN  /\ ret.exc = "None"
               /\ back.exc = "None"
               /\ Len(ret.val) = Len(back.val)
               /\ \A t \in 1..Len(ret.val) : ret.val[t] = RNeg(back.val[t])

\* c1 longer than c2: the branch c1[:c2.size] -= c2
C17_Witness ==
    /\ fn = "polysub"
    /\ args = <<<<One, IntR(2), One>>, <<One, One>>>>
    /\ ret = Ok(<<Zero, One, One>>)

\* c1 not longer than c2: the branch c2 = -c2; c2[:c1.size] += c1
C17_WitnessNegated ==
    /\ fn = "polysub"
    /\ args = <<<<One, One>>, <<One, IntR(2), One>>>>
    /\ ret = Ok(<<Zero, IntR(-1), IntR(-1)>>)

\* the product of the roots rs[i], i in S
RECURSIVE ProdOver(_, _)
ProdOver(S, rs) ==
    IF S = {} THEN One
    ELSE LET i == CHOOSE q \in S : TRUE
         IN  RMul(rs[i], ProdOver(S \ {i}, rs))

\* the sum of the products of the roots over the index sets in F
RECURSIVE SumProducts(_, _)
SumProducts(F, rs) ==
    IF F = {} THEN Zero
    ELSE LET S == CHOOSE q \in F : TRUE
         IN  RAdd(ProdOver(S, rs), SumProducts(F \ {S}, rs))

\* the coefficient of x**k in the product of (x - r) over the roots rs:
\* (-1)**(n-k) times the sum of the products of n-k of the roots
FactorsCoef(rs, k) ==
    LET j == Len(rs) - k
        e == SumProducts({S \in SUBSET (1..Len(rs)) : Cardinality(S) = j}, rs)
    IN  IF j % 2 = 0 THEN e ELSE RNeg(e)

\* C18: for every list rs of roots, repeated and zero roots included,
\* polyfromroots(rs) has length len(rs) + 1, highest coefficient 1, the
\* coefficients of the product of (x - r) over rs, and evaluates to 0 at
\* every root; for the empty list it is [1].
C18_MonicProduct ==
    (fn = "polyfromroots" /\ args[1] \in RootLists)
        => LET rs == args[1]
           IN  /\ ret.exc = "None"
               /\ Len(ret.val) = Len(rs) + 1
               /\ ret.val[Len(rs) + 1] = One
               /\ \A k \in 0..Len(rs) : ret.val[k + 1] = FactorsCoef(rs, k)
               /\ \A t \in 1..Len(rs) : polyval(rs[t], ret.val) = Ok(Zero)
               /\ rs = <<>> => ret.val = <<One>>

\* a repeated root and a zero root: x * (x - 1/2)**2
C18_Witness ==
    /\ fn = "polyfromroots"
    /\ args[1] = <<Rat(1, 2), Zero, Rat(1, 2)>>
    /\ ret = Ok(<<Zero, Rat(1, 4), IntR(-1), One>>)

\* no roots
C18_WitnessEmpty ==
    /\ fn = "polyfromroots"
    /\ args[1] = <<>>
    /\ ret = Ok(<<One>>)

\* a coefficient argument that as_series refuses: empty, or not 1-d
BadCoef(a) == Len(a) = 0 \/ ndim(a) # 1

\* the coefficient arguments of the call
CoefArgs ==
    IF fn \in {"polyadd", "polysub", "polymul", "polydiv"} THEN {args[1], args[2]}
    ELSE {args[1]}

\* the call failed with the error of as_series
SeriesError ==
    /\ ret.exc = "ValueError"
    /\ "msg" \in DOMAIN ret
    /\ ret.msg \in {"Coefficient array is empty", "Coefficient array is not 1-d"}
    /\ ret.val = <<>>

\* C19: in polyadd, polysub, polymulx, polymul, polydiv, polypow and
\* polyroots, a coefficient argument that is empty or not 1-d makes the call
\* fail with the error of as_series, whatever the other arguments are, and
\* before anything is handed to the eigenvalue solver.
C19_SeriesFirst ==
    (/\ fn \in {"polyadd", "polysub", "polymulx", "polymul", "polydiv", "polypow", "polyroots"}
     /\ \E a \in CoefArgs : BadCoef(a))
        => SeriesError /\ ext = <<>>

\* an empty dividend and a zero divisor
C19_Witness ==
    /\ fn = "polydiv"
    /\ args = <<<<>>, <<Zero>>>>
    /\ ret = RaiseMsg("ValueError", "Coefficient array is empty")

\* a 2-D series and a negative power
C19_WitnessPow ==
    /\ fn = "polypow"
    /\ args[1] = TwoD
    /\ args[2] = IntR(-1)
    /\ ret = RaiseMsg("ValueError", "Coefficient array is not 1-d")

\* a 2-D series and a power over the limit
C19_WitnessLimit ==
    /\ fn = "polypow"
    /\ args[1] = TwoD
    /\ args[2] = IntR(2)
    /\ args[3] = <<One>>
    /\ SeriesError

\* the matrix M is n by n, with last column -cs[:-1]/cs[-1], ones at the
\* entries [r, c] (Python indices, c not the last column) that Diag accepts,
\* and zeros elsewhere
HasLayout(M, cs, Diag(_, _)) ==
    LET n == Len(cs) - 1
    IN  /\ Len(M) = n
        /\ \A r \in 0..(n - 1) :
            /\ Len(M[r + 1]) = n
            /\ \A c \in 0..(n - 1) :
                M[r + 1][c + 1] = IF c = n - 1 THEN RDiv(RNeg(cs[r + 1]), cs[n + 1])
                                  ELSE IF Diag(r, c) THEN One
                                  ELSE Zero

SuperDiagonal(r, c) == c = r + 1
SubDiagonal(r, c) == r = c + 1

\* what the claim says of the shorter series: no matrix; an empty result for
\* length <= 1 and the single value -cs[0]/cs[1] for length 2
ShortCases(cs) ==
    /\ ext = <<>>
    /\ Len(cs) <= 1 => ret = Ok(<<>>)
    /\ Len(cs) = 2 => ret = Ok(<<RDiv(RNeg(cs[1]), cs[2])>>)

\* C20 as stated: for a trimmed series of length n+1 >= 3 the matrix handed
\* to the eigenvalue solver has ones on the superdiagonal [i, i+1], last
\* column -cs[:-1]/cs[-1] and zeros elsewhere; shorter series build no matrix.
C20_Original ==
    (fn = "polyroots" /\ IsSeries(args[1]))
        => LET cs == trimseq(args[1])
           IN  IF Len(cs) >= 3
               THEN /\ Len(ext) = 1
                    /\ ext[1].ev = "eigvals"
                    /\ HasLayout(ext[1].arg, cs, SuperDiagonal)
               ELSE ShortCases(cs)

\* C20: for a trimmed series of length n+1 >= 3 the matrix handed to the
\* eigenvalue solver has ones on the subdiagonal [i+1, i], last column
\* -cs[:-1]/cs[-1] and zeros elsewhere; for length <= 1 no matrix is built
\* and the result is empty, for length 2 it is the single value -cs[0]/cs[1].
C20_Companion ==
    (fn = "polyroots" /\ IsSeries(args[1]))
        => LET cs == trimseq(args[1])
           IN  IF Len(cs) >= 3
               THEN /\ Len(ext) = 1
                    /\ ext[1].ev = "eigvals"
                    /\ HasLayout(ext[1].arg, cs, SubDiagonal)
               ELSE ShortCases(cs)

\* the 3 by 3 matrix of the series [1/2, -1, -1/2, 1]
C20_Witness ==
    /\ fn = "polyroots"
    /\ args[1] = <<Rat(1, 2), IntR(-1), Rat(-1, 2), One>>
    /\ ext[1].arg = <<<<Zero, Zero, Rat(-1, 2)>>,
                      <<One, Zero, One>>,
                      <<Zero, One, Rat(1, 2)>>>>

\* a linear series with a trailing zero: one root and no matrix
C20_WitnessLinear ==
    /\ fn = "polyroots"
    /\ args[1] = <<One, IntR(2), Zero>>
    /\ ext = <<>>
    /\ ret = Ok(<<Rat(-1, 2)>>)

C21_WitnessZero ==
    /\ fn = "polyint"
    /\ args = <<<<Zero>>, One, <<One>>, One, IntR(2)>>
    /\ ret = Ok(<<One>>)

\* the series [2] with scale 0 takes the same branch
C21_WitnessScaledToZero ==
    /\ fn = "polyint"
    /\ args = <<<<IntR(2)>>, IntR(2), <<Zero, One>>, One, Zero>>
    /\ ret = Ok(<<One>>)

\* (i+1)*(i+2)*...*(i+m)
RECURSIVE Rising(_, _)
Rising(i, m) == IF m = 0 THEN 1 ELSE (i + m) * Rising(i, m - 1)

\* C22: for every non-empty 1-D c of length n, every scl and integer
\* m >= 0: polyder returns c unchanged if m = 0; if 0 < m < n a series of
\* length n-m whose coefficient i is scl**m * (i+1)*(i+2)*...*(i+m) * c[i+m];
\* and the single-element zero series [0] if m >= n.
C22_PowerRule ==
    (fn = "polyder" /\ Len(args[1]) > 0 /\ IsNatural(args[2]))
        => LET c == args[1]
               n == Len(c)
               m == args[2][1]
               scl == args[3]
           IN  /\ ret.exc = "None"
               /\ m = 0 => ret.val = c
               /\ (0 < m /\ m < n) =>
                    /\ Len(ret.val) = n - m
                    /\ \A i \in 0..(n - m - 1) :
                        ret.val[i + 1]
                            = RMul(RMul(RPow(scl, m), IntR(Rising(i, m))), c[i + m + 1])
               /\ m >= n => ret.val = <<Zero>>

\* the second derivative of a cubic-length series with scale 2: 2**2 * 1*2 * c[2]
C22_Witness ==
    /\ fn = "polyder"
    /\ args = <<<<One, IntR(-1), IntR(2)>>, IntR(2), IntR(2)>>
    /\ ret = Ok(<<IntR(16)>>)

\* as many derivatives as coefficients: [0]
C22_WitnessCollapsed ==
    /\ fn = "polyder"
    /\ args = <<<<One, IntR(2)>>, IntR(2), IntR(2)>>
    /\ ret = Ok(<<Zero>>)

\* no derivative: c with its trailing zero
C22_WitnessUnchanged ==
    /\ fn = "polyder"
    /\ args = <<<<One, Zero>>, Zero, IntR(2)>>
    /\ ret = Ok(<<One, Zero>>)

====
